---- MODULE Spec2Model ----
(***************************************************************************)
(* A model of backend/main.py of the AI Study Assistant: the text chunker  *)
(* (chunk_text), the Ollama client with model fallback (query_ollama,      *)
(* get_available_models) and the endpoints /upload, /ask and /clear on top *)
(* of one vector-store collection.                                         *)
(*                                                                         *)
(* Strings.  A character string that the code slices (PDF text, chunks) is *)
(* a sequence of one-character strings.  A message that the code only      *)
(* builds by concatenation and substring-tests (error messages, answers)   *)
(* is a sequence of pieces, each piece an atom standing for one literal or *)
(* one text received from the server; concatenation is \o.                 *)
(***************************************************************************)
EXTENDS Integers, Sequences, FiniteSets, TLC

VARIABLES
    \* ---- query_ollama: one invocation
    caller,          \* who invoked query_ollama: "none", "direct", "ask"
    model,           \* parameter model
    fallback_models, \* parameter fallback_models
    prompt_q,        \* parameter prompt (the retrieved chunks it was built from)
    models_to_try,   \* local models_to_try
    idx,             \* position of the for loop in models_to_try (1-based)
    last_error,      \* local last_error: None or a message
    q_pc,            \* "idle", "loop", "exhausted", "returned", "raised"
    q_result,        \* the returned text or the raised Exception's message
    requests_sent,   \* generation requests POSTed since the current endpoint request
                     \* or direct call began: <<[model, prompt, response]>>
    tags_queries,    \* responses to the GET /api/tags requests issued since then
    \* ---- the vector store and the endpoints
    collection,      \* the chunks of the global collection: a set of records
    ask_pc,          \* "idle", "query_ollama", "done"
    results,         \* ask_question: the chunks returned by collection.query
    http_response,   \* the last HTTP response produced by an endpoint
    \* ---- requests in flight on the server's event loop
    handle_state,    \* the collection the global `collection` refers to: "live",
                     \* "deleted" by a clear that is running, "lost" for good
    running,         \* the request whose handler holds the event loop, 0 if none
    req,             \* per request slot: kind, position, inputs, results, response
    last_completed,  \* endpoint and status of the handler that finished last
    \* ---- chunk_text: one invocation
    c_text, c_chunk_size, c_overlap, c_start, c_chunks, c_pc

ollama_vars == <<caller, model, fallback_models, prompt_q, models_to_try, idx,
                 last_error, q_pc, q_result, requests_sent, tags_queries>>
service_vars == <<collection, ask_pc, results, http_response>>
chunk_vars == <<c_text, c_chunk_size, c_overlap, c_start, c_chunks, c_pc>>
loop_vars == <<handle_state, running, req, last_completed>>
vars == <<ollama_vars, service_vars, chunk_vars, loop_vars>>

\* Python's None.
None == <<"None">>

Min(a, b) == IF a < b THEN a ELSE b
Max(a, b) == IF a > b THEN a ELSE b

(***************************************************************************)
(* Configuration (main.py 35-36).                                          *)
(***************************************************************************)
DEFAULT_MODEL == "llama3.2:1b"
FALLBACK_MODELS == <<"llama3.2:1b", "llama3.2", "llama3:1b", "tinyllama", "phi">>

(***************************************************************************)
(* Bounds of the model.                                                    *)
(***************************************************************************)
\* longest fallback list a direct caller of query_ollama passes
MaxFallbackLen == 3
\* model identifiers a direct caller chooses from
CallerModels == {"llama3.2:1b", "tinyllama", "phi"}

RECURSIVE SeqsUpTo(_, _)
SeqsUpTo(S, n) ==
    IF n = 0 THEN {<<>>}
    ELSE LET shorter == SeqsUpTo(S, n - 1)
         IN shorter \cup {Append(s, x) : s \in {t \in shorter : Len(t) = n - 1}, x \in S}

(***************************************************************************)
(* Texts the Ollama server may put in a response.  Each atom names a       *)
(* concrete text; what matters to the code is its lowercase form's         *)
(* substrings and, for a non-JSON body, its first 200 characters.          *)
(***************************************************************************)
T_ALLOC == "llama runner: Unable To Allocate 2.0 GiB"      \* mixed case
T_BUFFER == "CUDA error: BUFFER too small"                  \* upper case
T_NOT_FOUND == "model 'x' not found"
\* a body of more than 200 characters whose only "buffer" is after the 200th
T_LONG == "<html>(250 characters of markup)... buffer"
T_LONG_200 == "<html>(the first 200 characters of markup)"
T_ANSWER == "The answer is 42."

\* response.text[:200] (main.py 205)
First200(t) == IF t = T_LONG THEN T_LONG_200 ELSE t

\* The atoms whose lowercase form contains "unable to allocate", resp. "buffer".
\* No literal of main.py that ends up in a message contains either, and no
\* match can straddle two pieces (every literal piece placed before a server
\* text ends in a blank or colon-blank).
LowerHasUnableToAllocate == {T_ALLOC}
LowerHasBuffer == {T_BUFFER, T_LONG}

\* "unable to allocate" in msg.lower() or "buffer" in msg.lower() (main.py 209, 442)
mentions_memory(msg) ==
    \E i \in DOMAIN msg : msg[i] \in LowerHasUnableToAllocate \/ msg[i] \in LowerHasBuffer

(***************************************************************************)
(* Responses of POST /api/generate as requests.post delivers them: an      *)
(* exception of requests, or an HTTP response with a status, a body that   *)
(* parses as a JSON object or does not, the text field the object carries  *)
(* ("response", "error", or another one) and the text.                     *)
(***************************************************************************)
NoText == ""
ConnectionError == [kind |-> "ConnectionError", status |-> 0, json |-> FALSE,
                    field |-> "none", text |-> NoText]
Timeout == [kind |-> "Timeout", status |-> 0, json |-> FALSE,
            field |-> "none", text |-> NoText]
Http(status, json, field, text) ==
    [kind |-> "http", status |-> status, json |-> json, field |-> field, text |-> text]

GenerateResponses ==
    {ConnectionError, Timeout}
    \cup {Http(200, TRUE, "response", T_ANSWER)}
    \cup {Http(200, TRUE, "detail", T_BUFFER)}
    \cup {Http(500, TRUE, "error", t) : t \in {T_ALLOC, T_NOT_FOUND}}
    \cup {Http(500, TRUE, "detail", T_ALLOC)}
    \cup {Http(500, FALSE, "none", t) : t \in {T_BUFFER, T_LONG}}

\* str(response.status_code)
StatusStr(status) == IF status = 200 THEN "200" ELSE "500"

\* f"{data}" for the JSON object of a response (main.py 195)
DataRepr(resp) == <<"{'", resp.field, "': '", resp.text, "'}">>

(***************************************************************************)
(* Messages of query_ollama.                                               *)
(***************************************************************************)
CannotConnectMsg ==
    <<"Cannot connect to Ollama. Is Ollama running? Start it with: ollama serve">>
TimedOutMsg ==
    <<"Ollama request timed out. The model might be too slow or not responding.">>
UnexpectedFormatMsg(resp) == <<"Unexpected Ollama response format: ">> \o DataRepr(resp)
OllamaErrorMsg(exc) == <<"Ollama error: ">> \o exc

\* error_msg of a non-200 response (main.py 198-206)
ErrorMsg(resp) ==
    LET base == <<"Ollama returned status ", StatusStr(resp.status)>>
    IN IF resp.json
       THEN IF resp.field = "error" THEN base \o <<": ", resp.text>> ELSE base
       ELSE base \o <<": ", First200(resp.text)>>

\* Variant: the body of a non-200 response never updates last_error.
LastErrorOfBody_KeepsOld(resp, le) == le

\* last_error after the body of a non-200 response was inspected (main.py 203, 206)
LastErrorOfBody(resp, le) ==
    IF resp.json
    THEN IF resp.field = "error" THEN <<resp.text>> ELSE le
    ELSE ErrorMsg(resp)

\* The three ways one iteration of the for loop ends.
Return(text, le) == [do |-> "return", value |-> text, last_error |-> le]
Raise(msg, le) == [do |-> "raise", value |-> msg, last_error |-> le]
Continue(le) == [do |-> "continue", value |-> None, last_error |-> le]

\* models_to_try[-1]
LastOf(mtt) == mtt[Len(mtt)]

\* Variant: a connection error handled like a timeout (next model unless last).
OnConnectionError_LikeTimeout(attempt_model, mtt, le) ==
    IF attempt_model # LastOf(mtt) THEN Continue(le) ELSE Raise(CannotConnectMsg, le)

\* except requests.exceptions.ConnectionError (main.py 214-216)
OnConnectionError(attempt_model, mtt, le) == Raise(CannotConnectMsg, le)

\* except requests.exceptions.Timeout (main.py 217-221)
OnTimeout(attempt_model, mtt, le) ==
    IF attempt_model # LastOf(mtt) THEN Continue(le) ELSE Raise(TimedOutMsg, le)

\* except Exception as exc (main.py 222-227)
OnException(exc, attempt_model, mtt, le) ==
    IF attempt_model = LastOf(mtt) THEN Raise(OllamaErrorMsg(exc), le) ELSE Continue(exc)

\* Variant: a good answer does not end the loop unless the model is the last one.
OnStatus200_KeepsTrying(resp, attempt_model, mtt, le) ==
    IF resp.field = "response" /\ attempt_model = LastOf(mtt)
    THEN Return(<<resp.text>>, le)
    ELSE IF resp.field = "response" THEN Continue(le)
    ELSE OnException(UnexpectedFormatMsg(resp), attempt_model, mtt, le)

\* status 200 (main.py 190-195)
OnStatus200(resp, attempt_model, mtt, le) ==
    IF resp.field = "response"
    THEN Return(<<resp.text>>, le)
    ELSE OnException(UnexpectedFormatMsg(resp), attempt_model, mtt, le)

\* Variant: only "unable to allocate" is looked for.
RetryNextModel_OnlyAllocate(error_msg) ==
    \E i \in DOMAIN error_msg : error_msg[i] \in LowerHasUnableToAllocate

\* the memory/buffer test on error_msg (main.py 209)
RetryNextModel(error_msg) == mentions_memory(error_msg)

\* any other status (main.py 197-212)
OnErrorStatus(resp, attempt_model, mtt, le) ==
    LET error_msg == ErrorMsg(resp)
        le2 == LastErrorOfBody(resp, le)
    IN IF RetryNextModel(error_msg)
       THEN Continue(le2)
       ELSE OnException(error_msg, attempt_model, mtt, le2)

\* One iteration of the for loop on response resp (main.py 178-227)
Outcome(resp, attempt_model, mtt, le) ==
    CASE resp.kind = "ConnectionError" -> OnConnectionError(attempt_model, mtt, le)
      [] resp.kind = "Timeout" -> OnTimeout(attempt_model, mtt, le)
      [] resp.kind = "http" /\ resp.status = 200 -> OnStatus200(resp, attempt_model, mtt, le)
      [] OTHER -> OnErrorStatus(resp, attempt_model, mtt, le)

\* if fallback_models is None: fallback_models = FALLBACK_MODELS (main.py 171-172)
FallbackOrDefault(fallback) == IF fallback = None THEN FALLBACK_MODELS ELSE fallback

\* Variant: the fallback list is appended unfiltered.
ModelsToTry_Unfiltered(m, fallback) == <<m>> \o fallback

\* [model] + [m for m in fallback_models if m != model] (main.py 175)
ModelsToTry(m, fallback) == <<m>> \o SelectSeq(fallback, LAMBDA x : x # m)

(***************************************************************************)
(* get_available_models (main.py 141-156): GET /api/tags.                  *)
(***************************************************************************)
InstalledSix == <<"llama3.2:1b", "llama3.2", "llama3:1b", "tinyllama", "phi", "mistral">>
TagsResponses ==
    {[kind |-> "exception", status |-> 0, models |-> <<>>],
     [kind |-> "http", status |-> 500, models |-> <<"tinyllama">>],
     [kind |-> "http", status |-> 200, models |-> <<>>],
     [kind |-> "http", status |-> 200, models |-> InstalledSix]}

get_available_models(tags) ==
    IF tags.kind = "exception" THEN <<>>
    ELSE IF tags.status # 200 THEN <<>>
    ELSE tags.models

\* ', '.join(names)
RECURSIVE JoinComma(_)
JoinComma(names) ==
    IF Len(names) = 0 THEN <<>>
    ELSE IF Len(names) = 1 THEN names
    ELSE <<Head(names), ", ">> \o JoinComma(Tail(names))

\* available[:5]
FirstFive(available) == SubSeq(available, 1, Min(5, Len(available)))

\* str(last_error) inside the f-string (main.py 231)
StrOf(le) == le

\* error_suggestion (main.py 231-238)
AllFailedMsg(le, available) ==
    <<"All models failed. Last error: ">> \o StrOf(le) \o <<"\n\n">>
    \o <<"Try:\n">>
    \o <<"1. Restart Ollama: Close and run 'ollama serve' again\n">>
    \o <<"2. Free up RAM: Close other applications\n">>
    \o (IF Len(available) > 0
        THEN <<"3. Available models: ">> \o JoinComma(FirstFive(available)) \o <<"\n">>
        ELSE <<"3. Install a smaller model: 'ollama pull tinyllama'\n">>)

(***************************************************************************)
(* query_ollama as a process: entry, one action per loop iteration, and    *)
(* the code after the loop.                                                *)
(***************************************************************************)
\* main.py 171-176: entry with the parameters bound
QueryOllamaEnter(who, prompt, m, fallback) ==
    /\ caller' = who
    /\ model' = m
    /\ fallback_models' = FallbackOrDefault(fallback)
    /\ prompt_q' = prompt
    /\ models_to_try' = ModelsToTry(m, FallbackOrDefault(fallback))
    /\ idx' = 1
    /\ last_error' = None
    /\ q_pc' = "loop"
    /\ q_result' = None
    /\ requests_sent' = <<>>
    /\ tags_queries' = <<>>

\* main.py 178-227: one iteration, the request and the handling of its response
QueryOllamaAttempt ==
    /\ q_pc = "loop"
    /\ \E resp \in GenerateResponses :
         LET attempt_model == models_to_try[idx]
             out == Outcome(resp, attempt_model, models_to_try, last_error)
         IN /\ requests_sent' = Append(requests_sent,
                                       [model |-> attempt_model, prompt |-> prompt_q,
                                        response |-> resp])
            /\ last_error' = out.last_error
            /\ CASE out.do = "return" ->
                      /\ q_pc' = "returned" /\ q_result' = out.value /\ idx' = idx
                 [] out.do = "raise" ->
                      /\ q_pc' = "raised" /\ q_result' = out.value /\ idx' = idx
                 [] OTHER ->
                      /\ idx' = idx + 1
                      /\ q_pc' = IF idx + 1 > Len(models_to_try) THEN "exhausted" ELSE "loop"
                      /\ q_result' = q_result
    /\ UNCHANGED <<caller, model, fallback_models, prompt_q, models_to_try, tags_queries>>
    /\ UNCHANGED <<service_vars, chunk_vars, loop_vars>>

\* main.py 229-240: every model failed
QueryOllamaExhausted ==
    /\ q_pc = "exhausted"
    /\ \E tags \in TagsResponses :
         /\ tags_queries' = Append(tags_queries, tags)
         /\ q_result' = AllFailedMsg(last_error, get_available_models(tags))
    /\ q_pc' = "raised"
    /\ UNCHANGED <<caller, model, fallback_models, prompt_q, models_to_try, idx,
                   last_error, requests_sent>>
    /\ UNCHANGED <<service_vars, chunk_vars, loop_vars>>

\* A caller other than the /ask endpoint invokes query_ollama(prompt, model,
\* fallback_models).  Invocations share no state (every local is rebound on
\* entry), so one invocation per behaviour covers them all.
P_DIRECT == <<"direct prompt">>
QueryOllamaCall ==
    /\ q_pc = "idle"
    /\ \E m \in CallerModels, fallback \in SeqsUpTo(CallerModels, MaxFallbackLen) \cup {None} :
         QueryOllamaEnter("direct", P_DIRECT, m, fallback)
    /\ UNCHANGED <<service_vars, chunk_vars, loop_vars>>

(***************************************************************************)
(* chunk_text (main.py 118-138).                                           *)
(***************************************************************************)
\* text[start:end] for 0 <= start
Slice(text, start, end) == SubSeq(text, start + 1, Min(end, Len(text)))

\* Variant: the window advances by a whole chunk, the overlap forgotten.
Advance_NoOverlap(chunk_size, overlap) == Max(chunk_size, 1)

\* Variant: the advance is not kept positive.
Advance_MayStall(chunk_size, overlap) == Max(chunk_size - overlap, 0)

\* the advance of the window (main.py 136)
Advance(chunk_size, overlap) == Max(chunk_size - overlap, 1)

\* Variant: the loop stops one character early.
WindowRemains_OffByOne(text, start) == start + 1 < Len(text)

\* the loop condition (main.py 132)
WindowRemains(text, start) == start < Len(text)

\* the function, as the loop computes it from offset start on
RECURSIVE ChunksFrom(_, _, _, _)
ChunksFrom(text, chunk_size, overlap, start) ==
    IF WindowRemains(text, start)
    THEN <<Slice(text, start, start + chunk_size)>>
         \o ChunksFrom(text, chunk_size, overlap, start + Advance(chunk_size, overlap))
    ELSE <<>>

chunk_text(text, chunk_size, overlap) ==
    IF Len(text) = 0 THEN <<>> ELSE ChunksFrom(text, chunk_size, overlap, 0)

\* Bounds of the inputs chunk_text is called with.
MaxTextLen == 5
MaxChunkSize == 4
MaxOverlap == 4
Alphabet == {"a", "b", " "}

\* main.py 125-129: entry; the empty text returns [] at once
ChunkTextCall ==
    /\ c_pc = "idle"
    /\ \E text \in SeqsUpTo(Alphabet, MaxTextLen), size \in 1..MaxChunkSize,
          overlap \in 0..MaxOverlap :
         /\ c_text' = text /\ c_chunk_size' = size /\ c_overlap' = overlap
         /\ c_start' = 0 /\ c_chunks' = <<>>
         /\ c_pc' = IF Len(text) = 0 THEN "done" ELSE "loop"
    /\ UNCHANGED <<ollama_vars, service_vars, loop_vars>>

\* main.py 132-136: one iteration of the while loop
ChunkTextStep ==
    /\ c_pc = "loop"
    /\ WindowRemains(c_text, c_start)
    /\ c_chunks' = Append(c_chunks, Slice(c_text, c_start, c_start + c_chunk_size))
    /\ c_start' = c_start + Advance(c_chunk_size, c_overlap)
    /\ UNCHANGED <<c_text, c_chunk_size, c_overlap, c_pc>>
    /\ UNCHANGED <<ollama_vars, service_vars, loop_vars>>

\* main.py 132, 138: the loop condition fails, return chunks
ChunkTextReturn ==
    /\ c_pc = "loop"
    /\ ~WindowRemains(c_text, c_start)
    /\ c_pc' = "done"
    /\ UNCHANGED <<c_text, c_chunk_size, c_overlap, c_start, c_chunks>>
    /\ UNCHANGED <<ollama_vars, service_vars, loop_vars>>

(***************************************************************************)
(* The vector store.  The collection of chromadb is an external engine;    *)
(* what the endpoints rely on is kept: a set of chunks keyed by id, add of *)
(* a batch (which the engine may reject as a whole), and query returning   *)
(* at most n_results stored chunks in the engine's order of relevance.     *)
(* add never alters a stored chunk: given an id that is stored already it  *)
(* leaves the stored chunk as it is or, in releases that check the ids,    *)
(* rejects the batch (AddModes).                                           *)
(***************************************************************************)
\* chunk_text's defaults (main.py 118) and n_results (main.py 410)
DEFAULT_CHUNK_SIZE == 1000
DEFAULT_OVERLAP == 200
N_RESULTS == 3

Filenames == {"a.pdf", "b.pdf"}
\* texts extract_text_from_pdf may return for an uploaded file
ExtractedTexts == {<<>>, <<" ", " ">>, <<"a", " ", "b">>}

\* f"{file.filename}_{i}" (main.py 371): the pair, which the string determines
ChunkId(filename, i) == <<filename, i>>

\* ids, documents and metadatas of one upload (main.py 371-379), i from 0
Batch(filename, chunks) ==
    {[id |-> ChunkId(filename, i - 1), document |-> chunks[i],
      metadata |-> [source |-> filename, chunk |-> i - 1]] : i \in DOMAIN chunks}

StoredIds(coll) == {c.id : c \in coll}

\* what the engine's add does with a chunk of the batch whose id is stored
\* already: it keeps the stored chunk (and stores the others), or rejects the
\* batch; it never replaces a stored chunk, which is upsert's part
AddModes == {"skip", "raise"}

\* collection.add raises: the engine rejects ids that are stored
AddRaises(mode, coll, batch) ==
    mode = "raise" /\ StoredIds(coll) \cap StoredIds(batch) # {}

\* Variant: collection.upsert, the batch replaces chunks stored under its ids.
Add_Upsert(mode, coll, batch) ==
    IF AddRaises(mode, coll, batch) THEN coll
    ELSE {c \in coll : c.id \notin StoredIds(batch)} \cup batch

\* the store after collection.add(documents, ids, metadatas) (main.py 375-379)
Add(mode, coll, batch) ==
    IF AddRaises(mode, coll, batch) THEN coll
    ELSE coll \cup {c \in batch : c.id \notin StoredIds(coll)}

\* str(exc) of what the engine raises: through a handle whose collection was
\* deleted, for an id that is stored, for a reason of its own
StaleHandleDetail == "Collection study_docs does not exist."
IdExistsDetail == "ID already exists"
EngineErrorDetail == "engine error"

\* Variant: only the empty text counts as having no text.
IsBlank_EmptyOnly(text) == Len(text) = 0

\* text.strip() is empty
IsBlank(text) == \A i \in DOMAIN text : text[i] = " "

\* the orders in which collection.query may return n of the stored chunks
QueryResults(coll, n) ==
    LET k == Min(n, Cardinality(coll))
    IN {r \in [1..k -> coll] : \A i, j \in 1..k : i # j => r[i] # r[j]}

\* the request slots of the server
Requests == {1, 2}

NoOutcome == [do |-> "none", value |-> None]

FreeRequest ==
    [kind |-> "none", pc |-> "free", filename |-> "", text |-> <<>>, engine |-> "ok",
     results |-> <<>>, outcome |-> NoOutcome, removed |-> 0,
     response |-> [endpoint |-> "none", status |-> 0]]

NoneCompleted == [endpoint |-> "none", status |-> 0]

\* no handler has begun and not ended
NoRequestRuns ==
    /\ ask_pc \in {"idle", "done"} /\ q_pc \in {"idle", "returned", "raised"}
    /\ \A r \in Requests : req[r].pc \in {"free", "done"}

\* Variant: the early return is never taken.
NoDocumentsFound_Never(res) == FALSE

\* not documents or not documents[0] (main.py 413-414)
NoDocumentsFound(res) == Len(res) = 0

\* An endpoint request begins: the record of the previous request's invocation
\* of query_ollama (its locals, the requests it sent) is dropped.
OllamaReset ==
    /\ caller' = "none" /\ model' = DEFAULT_MODEL /\ fallback_models' = FALLBACK_MODELS
    /\ prompt_q' = <<>> /\ models_to_try' = <<>> /\ idx' = 1 /\ last_error' = None
    /\ q_pc' = "idle" /\ q_result' = None /\ requests_sent' = <<>> /\ tags_queries' = <<>>

(***************************************************************************)
(* POST /ask (main.py 395-485).                                            *)
(***************************************************************************)
NoDocumentsAnswer == <<"No documents found. Please upload documents first.">>

\* Variant: only "unable to allocate" selects the memory checklist.
UseMemoryChecklist_OnlyAllocate(error_msg) ==
    \E i \in DOMAIN error_msg : error_msg[i] \in LowerHasUnableToAllocate

\* the memory/buffer test on str(ollama_error) (main.py 442)
UseMemoryChecklist(error_msg) == mentions_memory(error_msg)

MemoryChecklist ==
    <<"\n\n", "Quick fixes:\n",
      "1. Restart Ollama: Close terminal running 'ollama serve', then run it again\n",
      "2. Free up RAM: Close other applications\n",
      "3. Try a smaller model: Run 'ollama pull tinyllama' then restart\n",
      "4. Check available models: Visit http://localhost:8000/models">>
GenericChecklist ==
    <<"\n\nPlease check:\n",
      "1. Is Ollama running? (Run 'ollama serve' in terminal)\n",
      "2. Is a model installed? (Run 'ollama pull llama3.2:1b' or 'ollama pull tinyllama')">>

\* main.py 440-456 (the warning sign that opens either text is left out)
ErrorAnswer(error_msg) ==
    IF UseMemoryChecklist(error_msg)
    THEN <<"Memory Error: ">> \o error_msg \o MemoryChecklist
    ELSE <<"Error: ">> \o error_msg \o GenericChecklist

\* meta.get(key, default)
MetaGet(meta, key, default) == IF key \in DOMAIN meta THEN meta[key] ELSE default

\* Variant: the sources are listed last-retrieved first.
SourcesOf_Reversed(res) ==
    [i \in DOMAIN res |->
        [source |-> MetaGet(res[Len(res) + 1 - i].metadata, "source", "Unknown"),
         chunk |-> MetaGet(res[Len(res) + 1 - i].metadata, "chunk", 0)]]

\* main.py 464-473
SourcesOf(res) ==
    [i \in DOMAIN res |-> [source |-> MetaGet(res[i].metadata, "source", "Unknown"),
                           chunk |-> MetaGet(res[i].metadata, "chunk", 0)]]

\* Variant: the exception of query_ollama reaches the outer handler (main.py 480-485).
OnOllamaError_Propagates(error_msg) ==
    [endpoint |-> "ask", status |-> 500, detail |-> error_msg \o <<"\n\nTraceback:\n">>]

\* the response built when query_ollama raised (main.py 438-461)
OnOllamaError(error_msg) ==
    [endpoint |-> "ask", status |-> 200, answer |-> ErrorAnswer(error_msg), sources |-> <<>>]

\* the response built when query_ollama returned (main.py 463-478)
OnOllamaAnswer(answer, res) ==
    [endpoint |-> "ask", status |-> 200, answer |-> answer, sources |-> SourcesOf(res)]

\* the response built when retrieval returned nothing (main.py 413-419)
OnNoDocuments ==
    [endpoint |-> "ask", status |-> 200, answer |-> NoDocumentsAnswer, sources |-> <<>>]

\* main.py 406-437: retrieval, the early return, the call of query_ollama(prompt);
\* the record of the request served before is dropped
AskQuery ==
    /\ NoRequestRuns
    /\ running = 0
    /\ IF handle_state # "live"
       THEN /\ http_response' = [endpoint |-> "ask", status |-> 500,
                                 detail |-> <<StaleHandleDetail, "\n\nTraceback:\n">>]
            /\ results' = <<>>
            /\ ask_pc' = "done"
            /\ OllamaReset
       ELSE \E engine \in {"ok", "error"} :
         IF engine = "error"
         THEN /\ http_response' = [endpoint |-> "ask", status |-> 500,
                                   detail |-> <<EngineErrorDetail, "\n\nTraceback:\n">>]
              /\ results' = <<>>
              /\ ask_pc' = "done"
              /\ OllamaReset
         ELSE \E res \in QueryResults(collection, N_RESULTS) :
                /\ results' = res
                /\ IF NoDocumentsFound(res)
                   THEN /\ http_response' = OnNoDocuments
                        /\ ask_pc' = "done"
                        /\ OllamaReset
                   ELSE /\ http_response' = [endpoint |-> "ask", status |-> 0] \* none yet
                        /\ ask_pc' = "query_ollama"
                        /\ QueryOllamaEnter("ask", res, DEFAULT_MODEL, None)
    /\ req' = [r \in Requests |-> FreeRequest]
    /\ last_completed' = NoneCompleted
    /\ UNCHANGED <<collection, chunk_vars, handle_state, running>>

\* main.py 437-478: query_ollama returned or raised, the response is built
AskFinish ==
    /\ ask_pc = "query_ollama"
    /\ q_pc \in {"returned", "raised"}
    /\ http_response' = IF q_pc = "raised"
                        THEN OnOllamaError(q_result)
                        ELSE OnOllamaAnswer(q_result, results)
    /\ ask_pc' = "done"
    /\ UNCHANGED <<collection, results, ollama_vars, chunk_vars, loop_vars>>

(***************************************************************************)
(* The endpoints as the server runs them.  uvicorn.run(app) (main.py 509-  *)
(* 512) serves every request from one event loop; the three endpoints are  *)
(* `async def` coroutines (main.py 344, 396, 489), so a handler keeps the  *)
(* loop until it awaits.  upload_document awaits once, file.read() (main.py*)
(* 356), before it touches the store; ask_question and clear_database      *)
(* never await.  A handler is split below at its calls into the store, and *)
(* EventLoopFree says when the loop lets a handler take its next step.     *)
(*                                                                         *)
(* chroma_client owns the collection; the global `collection` (main.py 84) *)
(* is a handle to it.  delete_collection (main.py 499) leaves the handle   *)
(* referring to a collection that is gone until get_or_create_collection   *)
(* (main.py 500) rebinds it; a call through such a handle raises.  When    *)
(* the rebinding fails the collection is lost: every later call raises.    *)
(***************************************************************************)
\* a 2500-character text: three full windows and a short one
LongTextLen == 2500
LongText ==
    [i \in 1..LongTextLen |-> IF i % 7 = 0 THEN " " ELSE IF i % 2 = 0 THEN "a" ELSE "b"]

\* texts extract_text_from_pdf may return, a long document among them
StoreTexts == {<<>>, <<" ", " ">>, <<"a", " ", "b">>, LongText}

\* Variant: handlers run on worker threads, as plain `def` endpoints would.
EventLoopFree_Threaded(r) == TRUE

\* async def endpoints on one event loop (main.py 344, 396, 489): a handler
\* runs only while no other handler is between two of its await points
EventLoopFree(r) == running \in {0, r}

Acquire(r) == IF running = 0 THEN r ELSE running
Release(r) == IF running = r THEN 0 ELSE running

\* the outcomes of query_ollama for a candidate list, from position i on:
\* every way the server may answer each request (main.py 181-240)
RECURSIVE OutcomesFrom(_, _, _)
OutcomesFrom(mtt, i, le) ==
    IF i > Len(mtt)
    THEN {[do |-> "raise", value |-> AllFailedMsg(le, get_available_models(tags))] :
              tags \in TagsResponses}
    ELSE UNION {LET out == Outcome(resp, mtt[i], mtt, le)
                IN IF out.do = "continue"
                   THEN OutcomesFrom(mtt, i + 1, out.last_error)
                   ELSE {[do |-> out.do, value |-> out.value]} :
                resp \in GenerateResponses}

\* query_ollama(prompt) as ask_question calls it (main.py 437)
AskOutcomes == OutcomesFrom(ModelsToTry(DEFAULT_MODEL, FallbackOrDefault(None)), 1, None)

\* the last stretch of a handler: the response goes out, the loop is released
Respond(r, response) ==
    /\ req' = [req EXCEPT ![r].pc = "done", ![r].response = response]
    /\ last_completed' = [endpoint |-> response.endpoint, status |-> response.status]
    /\ running' = Release(r)

LoopFrame == UNCHANGED <<ollama_vars, ask_pc, results, http_response, chunk_vars>>

\* a request reaches the server
NewRequest(kind, filename, text, engine) ==
    [FreeRequest EXCEPT !.kind = kind, !.pc = "start", !.filename = filename,
                        !.text = text, !.engine = engine]

Arrive(r, kind, filename, text, engine) ==
    /\ req[r].pc \in {"free", "done"}
    /\ req' = [req EXCEPT ![r] = NewRequest(kind, filename, text, engine)]
    /\ UNCHANGED <<collection, handle_state, running, last_completed>>
    /\ LoopFrame

\* POST /upload up to `await file.read()` (main.py 343-356)
UploadRead(r) ==
    /\ req[r].kind = "upload" /\ req[r].pc = "start"
    /\ EventLoopFree(r)
    /\ req' = [req EXCEPT ![r].pc = "await_read"]
    /\ UNCHANGED <<collection, handle_state, running, last_completed>>
    /\ LoopFrame

UploadOk(filename, n) ==
    [endpoint |-> "upload", status |-> 200, message |-> "Document uploaded successfully",
     filename |-> filename, chunks |-> n]
UploadNoText ==
    [endpoint |-> "upload", status |-> 400, detail |-> <<"No text found in PDF">>]
UploadNoChunks ==
    [endpoint |-> "upload", status |-> 400,
     detail |-> <<"Failed to generate chunks from PDF text">>]
\* HTTPException(status_code=500, detail=...) (main.py 390-392, 480-485, 504-505)
InternalError(endpoint, detail) == [endpoint |-> endpoint, status |-> 500, detail |-> detail]

\* POST /upload after the read: extract, check, chunk and store (main.py 358-392)
UploadStore(r) ==
    /\ req[r].kind = "upload" /\ req[r].pc = "await_read"
    /\ EventLoopFree(r)
    /\ LET text == req[r].text
           chunks == chunk_text(text, DEFAULT_CHUNK_SIZE, DEFAULT_OVERLAP)
           batch == Batch(req[r].filename, chunks)
       IN IF IsBlank(text)
          THEN Respond(r, UploadNoText) /\ collection' = collection
          ELSE IF Len(chunks) = 0
          THEN Respond(r, UploadNoChunks) /\ collection' = collection
          ELSE IF handle_state # "live"
          THEN Respond(r, InternalError("upload", <<StaleHandleDetail>>)) /\ collection' = collection
          ELSE IF req[r].engine = "error"
          THEN Respond(r, InternalError("upload", <<EngineErrorDetail>>)) /\ collection' = collection
          ELSE \E mode \in AddModes :
                 IF AddRaises(mode, collection, batch)
                 THEN /\ Respond(r, InternalError("upload", <<IdExistsDetail>>))
                      /\ collection' = collection
                 ELSE /\ Respond(r, UploadOk(req[r].filename, Len(chunks)))
                      /\ collection' = Add(mode, collection, batch)
    /\ UNCHANGED handle_state
    /\ LoopFrame

\* POST /ask: retrieval and the early return (main.py 395-419)
AskRetrieve(r) ==
    /\ req[r].kind = "ask" /\ req[r].pc = "start"
    /\ EventLoopFree(r)
    /\ IF handle_state # "live"
       THEN Respond(r, InternalError("ask", <<StaleHandleDetail, "\n\nTraceback:\n">>))
       ELSE IF req[r].engine = "error"
       THEN Respond(r, InternalError("ask", <<EngineErrorDetail, "\n\nTraceback:\n">>))
       ELSE \E res \in QueryResults(collection, N_RESULTS) :
              IF NoDocumentsFound(res)
              THEN Respond(r, OnNoDocuments)
              ELSE /\ req' = [req EXCEPT ![r].pc = "queried", ![r].results = res]
                   /\ running' = Acquire(r)
                   /\ UNCHANGED last_completed
    /\ UNCHANGED <<collection, handle_state>>
    /\ LoopFrame

\* POST /ask: the prompt, query_ollama and the response (main.py 421-478); the
\* handler's locals end with it
AskAnswer(r) ==
    /\ req[r].kind = "ask" /\ req[r].pc = "queried"
    /\ EventLoopFree(r)
    /\ \E out \in AskOutcomes :
         LET response == IF out.do = "raise"
                         THEN OnOllamaError(out.value)
                         ELSE OnOllamaAnswer(out.value, req[r].results)
         IN /\ req' = [req EXCEPT ![r].pc = "done", ![r].outcome = out,
                                  ![r].results = <<>>, ![r].response = response]
            /\ last_completed' = [endpoint |-> "ask", status |-> response.status]
    /\ running' = Release(r)
    /\ UNCHANGED <<collection, handle_state>>
    /\ LoopFrame

ClearOk == [endpoint |-> "clear", status |-> 200, message |-> "Database cleared successfully"]

\* DELETE /clear: chroma_client.delete_collection (main.py 488-499), which
\* raises when the collection is not there or the engine fails
ClearDelete(r) ==
    /\ req[r].kind = "clear" /\ req[r].pc = "start"
    /\ EventLoopFree(r)
    /\ IF handle_state # "live"
       THEN /\ Respond(r, InternalError("clear", <<StaleHandleDetail>>))
            /\ UNCHANGED <<collection, handle_state>>
       ELSE IF req[r].engine = "error"
       THEN /\ Respond(r, InternalError("clear", <<EngineErrorDetail>>))
            /\ UNCHANGED <<collection, handle_state>>
       ELSE /\ collection' = {}
            /\ handle_state' = "deleted"
            /\ req' = [req EXCEPT ![r].pc = "deleted",
                                     ![r].removed = Cardinality(collection)]
            /\ running' = Acquire(r)
            /\ UNCHANGED last_completed
    /\ LoopFrame

\* Variant: the collection is looked up and never created.
get_or_create_collection_GetOnly(state, create_ok) ==
    IF state = "live" THEN "live" ELSE "lost"

\* get_collection, and create_collection when that raises (main.py 65-80):
\* the handle returned is live; when create_collection raises too, the
\* exception leaves the function and the collection stays deleted
get_or_create_collection(state, create_ok) ==
    IF state = "live" THEN "live"
    ELSE IF create_ok THEN "live" ELSE "lost"

\* DELETE /clear: the global handle is rebound, the response (main.py 500-505)
ClearRecreate(r) ==
    /\ req[r].kind = "clear" /\ req[r].pc = "deleted"
    /\ EventLoopFree(r)
    /\ LET handle == get_or_create_collection(handle_state, req[r].engine # "create_error")
       IN /\ handle_state' = handle
          /\ IF handle = "live"
             THEN Respond(r, ClearOk)
             ELSE Respond(r, InternalError("clear", <<EngineErrorDetail>>))
    /\ UNCHANGED collection
    /\ LoopFrame

\* what the engine does to a request for reasons of its own: it serves it,
\* fails its call, or (a clear) fails the creation after the delete
EngineFates(kind) ==
    IF kind = "clear" THEN {"ok", "error", "create_error"} ELSE {"ok", "error"}

\* requests arrive one after the other; the stepwise /ask of AskQuery is the
\* third kind of request (main.py 343-344, 488-489)
SeqArrive ==
    /\ NoRequestRuns
    /\ \/ \E filename \in Filenames, text \in ExtractedTexts, engine \in EngineFates("upload") :
            req' = [req EXCEPT ![1] = NewRequest("upload", filename, text, engine)]
       \/ \E engine \in EngineFates("clear") :
            req' = [req EXCEPT ![1] = NewRequest("clear", "", <<>>, engine)]
    /\ ask_pc' = "idle"
    /\ results' = <<>>
    /\ http_response' = [endpoint |-> "none"]
    /\ OllamaReset
    /\ UNCHANGED <<collection, handle_state, running, last_completed, chunk_vars>>

\* requests arrive one after the other, of long documents too
StoreArrive ==
    /\ \A q \in Requests : req[q].pc \in {"free", "done"}
    /\ \/ \E filename \in Filenames, text \in StoreTexts, engine \in EngineFates("upload") :
            Arrive(1, "upload", filename, text, engine)
       \/ \E kind \in {"ask", "clear"} : \E engine \in EngineFates(kind) :
            Arrive(1, kind, "", <<>>, engine)

\* requests arrive while others are being served
RaceArrive ==
    \E r \in Requests :
         \/ \E filename \in Filenames, text \in ExtractedTexts, engine \in EngineFates("upload") :
              Arrive(r, "upload", filename, text, engine)
         \/ \E kind \in {"ask", "clear"} : \E engine \in EngineFates(kind) :
              Arrive(r, kind, "", <<>>, engine)

\* POST /upload (main.py 343-392), in its two stretches
upload_document == \E r \in Requests : UploadRead(r) \/ UploadStore(r)

\* POST /ask (main.py 395-485), its call of query_ollama taken as one step
ask_question == \E r \in Requests : AskRetrieve(r) \/ AskAnswer(r)

\* DELETE /clear (main.py 488-505)
clear_database == \E r \in Requests : ClearDelete(r) \/ ClearRecreate(r)

(***************************************************************************)
(* Initial state: the module was imported (main.py 59-84), nothing runs.   *)
(***************************************************************************)
OllamaInit ==
    /\ caller = "none" /\ model = DEFAULT_MODEL /\ fallback_models = FALLBACK_MODELS
    /\ prompt_q = <<>> /\ models_to_try = <<>> /\ idx = 1 /\ last_error = None
    /\ q_pc = "idle" /\ q_result = None /\ requests_sent = <<>> /\ tags_queries = <<>>
ServiceInit ==
    /\ collection = {} /\ ask_pc = "idle" /\ results = <<>>
    /\ http_response = [endpoint |-> "none"]
ChunkInit ==
    /\ c_text = <<>> /\ c_chunk_size = 1 /\ c_overlap = 0 /\ c_start = 0
    /\ c_chunks = <<>> /\ c_pc = "idle"

LoopInit ==
    /\ handle_state = "live" /\ running = 0
    /\ req = [r \in Requests |-> FreeRequest]
    /\ last_completed = NoneCompleted

Init == OllamaInit /\ ServiceInit /\ ChunkInit /\ LoopInit

NextOllama == QueryOllamaCall \/ QueryOllamaAttempt \/ QueryOllamaExhausted
SpecOllama == Init /\ [][NextOllama]_vars

NextChunk == ChunkTextCall \/ ChunkTextStep \/ ChunkTextReturn
SpecChunk == Init /\ [][NextChunk]_vars

\* chunk_text, once called, keeps running: its next statement is executed
SpecChunkFair == SpecChunk /\ WF_vars(ChunkTextStep \/ ChunkTextReturn)

\* requests served one after the other, /ask step by step
Next ==
    \/ SeqArrive
    \/ upload_document
    \/ clear_database
    \/ AskQuery
    \/ QueryOllamaAttempt
    \/ QueryOllamaExhausted
    \/ AskFinish
Spec == Init /\ [][Next]_vars

Handlers == upload_document \/ ask_question \/ clear_database

\* one request at a time
NextStore == StoreArrive \/ Handlers
SpecStore == Init /\ [][NextStore]_vars

\* requests served concurrently
NextRace == RaceArrive \/ Handlers
SpecRace == Init /\ [][NextRace]_vars

(***************************************************************************)
(* Properties of query_ollama, checked under SpecOllama.                   *)
(***************************************************************************)
ResponseOf(i) == requests_sent[i].response
IsSuccess(resp) == resp.kind = "http" /\ resp.status = 200 /\ resp.field = "response"
IsAllFailedError(msg) == Len(msg) > 0 /\ msg[1] = "All models failed. Last error: "

\* C1: a connectivity failure of the request to any candidate ends the
\* invocation at once with the "Cannot connect" error: that request is the
\* last one sent and the installed-model listing is not queried, whatever
\* the earlier candidates failed with.
C1_ConnectionErrorAborts ==
    \A i \in DOMAIN requests_sent :
        ResponseOf(i).kind = "ConnectionError"
        => /\ i = Len(requests_sent)
           /\ q_pc = "raised"
           /\ q_result = CannotConnectMsg
           /\ tags_queries = <<>>

C1_Witness ==
    /\ Len(requests_sent) = 2
    /\ ResponseOf(1).kind = "Timeout"
    /\ ResponseOf(2).kind = "ConnectionError"
    /\ Len(models_to_try) > 2
    /\ q_pc = "raised"

\* C2: candidates are contacted in the order of the candidate list, each one
\* only after all earlier ones failed, and the first success response with a
\* "response" field ends the invocation returning that text: no later
\* candidate is contacted.
C2_InOrderUntilFirstSuccess ==
    /\ Len(requests_sent) <= Len(models_to_try)
    /\ \A i \in DOMAIN requests_sent :
         /\ requests_sent[i].model = models_to_try[i]
         /\ i < Len(requests_sent) => ~IsSuccess(ResponseOf(i))
         /\ IsSuccess(ResponseOf(i))
            => /\ i = Len(requests_sent)
               /\ q_pc = "returned"
               /\ q_result = <<ResponseOf(i).text>>

C2_Witness ==
    /\ Len(requests_sent) = 2
    /\ ResponseOf(1).kind = "Timeout"
    /\ IsSuccess(ResponseOf(2))
    /\ Len(models_to_try) >= 3
    /\ q_pc = "returned"

\* C3: when the request to a candidate times out and a candidate remains
\* after it in the list, the invocation goes on to the next candidate; the
\* timeout error is raised only for the final position of the list (lists
\* with repeated identifiers included).
C3_TimeoutRaisesOnlyAtFinalPosition ==
    \A i \in DOMAIN requests_sent :
        (ResponseOf(i).kind = "Timeout" /\ i = Len(requests_sent))
        => IF i < Len(models_to_try)
           THEN q_pc = "loop" /\ idx = i + 1
           ELSE q_pc = "raised" /\ q_result = TimedOutMsg

\* The error text of a non-success response as the code reads it: the "error"
\* field of a JSON body, the first 200 characters of a body that is not JSON.
HasErrorText(resp) ==
    resp.kind = "http" /\ resp.status # 200 /\ (resp.json => resp.field = "error")
ErrorTextOf(resp) == IF resp.json THEN resp.text ELSE First200(resp.text)
IsResourceError(resp) ==
    HasErrorText(resp) /\ ErrorTextOf(resp) \in {T_ALLOC, T_BUFFER, T_LONG}

\* C4: a non-success response whose error text contains "unable to allocate"
\* or "buffer" (any case) never fails the invocation at that candidate: the
\* next candidate is tried if one remains, and after the last candidate the
\* invocation ends with the all-models-failed error, not a per-model one.
C4_ResourceErrorMovesOn ==
    \A i \in DOMAIN requests_sent :
        (IsResourceError(ResponseOf(i)) /\ i = Len(requests_sent))
        => IF i < Len(models_to_try)
           THEN q_pc = "loop" /\ idx = i + 1
           ELSE \/ q_pc = "exhausted"
                \/ q_pc = "raised" /\ IsAllFailedError(q_result) /\ Len(tags_queries) = 1

C4_Witness ==
    /\ Len(requests_sent) = Len(models_to_try)
    /\ Len(requests_sent) >= 2
    /\ ResponseOf(Len(requests_sent)) = Http(500, FALSE, "none", T_BUFFER)
    /\ q_pc = "raised"
    /\ IsAllFailedError(q_result)

\* C5: the candidate list is the requested model followed by the elements of
\* the fallback list that differ from it, in their order: the requested
\* model is its first element and occurs in it exactly once.
C5_CandidateList ==
    q_pc # "idle" =>
        LET kept(i) == Cardinality({j \in 1..i : fallback_models[j] # model})
        IN /\ models_to_try[1] = model
           /\ Cardinality({i \in DOMAIN models_to_try : models_to_try[i] = model}) = 1
           /\ Len(models_to_try) = 1 + kept(Len(fallback_models))
           /\ \A i \in DOMAIN fallback_models :
                fallback_models[i] # model
                => models_to_try[1 + kept(i)] = fallback_models[i]

C5_Witness ==
    /\ q_pc = "loop"
    /\ Len(fallback_models) = 3
    /\ fallback_models[2] = model
    /\ fallback_models[1] # model /\ fallback_models[3] # model
    /\ fallback_models[1] # fallback_models[3]
    /\ models_to_try = <<model, fallback_models[1], fallback_models[3]>>

\* C6: within one invocation no model identifier is sent more than one
\* generation request, and at most one request is sent per candidate.
C6_NoModelRequestedTwice ==
    /\ Len(requests_sent) <= Len(models_to_try)
    /\ \A i, j \in DOMAIN requests_sent :
         i # j => requests_sent[i].model # requests_sent[j].model

(***************************************************************************)
(* Properties of /ask, checked under Spec.                                 *)
(***************************************************************************)
AskDone == ask_pc = "done" /\ http_response.endpoint = "ask"
EndsWith(msg, tail) ==
    Len(msg) >= Len(tail) /\ SubSeq(msg, Len(msg) - Len(tail) + 1, Len(msg)) = tail
Embeds(msg, part) ==
    \E k \in 0..(Len(msg) - Len(part)) : SubSeq(msg, k + 1, k + Len(part)) = part

\* C7: when the collection holds no chunk as ask_question runs, the response
\* is the fixed "No documents found" answer with no sources, and neither a
\* generation request nor an installed-model listing request is issued (the
\* only other outcome is the 500 of a retrieval that itself raised).
C7_EmptyStoreShortCircuits ==
    (AskDone /\ collection = {})
    => /\ requests_sent = <<>>
       /\ tags_queries = <<>>
       /\ q_pc = "idle"
       /\ http_response.status # 500 => http_response = OnNoDocuments

C7_Witness ==
    /\ AskDone
    /\ collection = {}
    /\ http_response.status = 200
    /\ http_response.answer = NoDocumentsAnswer
    /\ http_response.sources = <<>>

\* C8: when retrieval returned chunks and query_ollama raised (connection
\* abort, timeout or other error on the last candidate, all candidates
\* exhausted), the response has status 200, an answer embedding the raised
\* message, and no sources; status 500 arises only when no invocation of
\* query_ollama took place.
C8_ModelFailureIsNormalResponse ==
    AskDone
    => /\ q_pc = "raised"
          => /\ Len(results) > 0
             /\ http_response.status = 200
             /\ http_response.sources = <<>>
             /\ Embeds(http_response.answer, q_result)
       /\ http_response.status = 500 => (q_pc = "idle" /\ requests_sent = <<>>)

C8_Witness ==
    /\ AskDone
    /\ q_pc = "raised"
    /\ IsAllFailedError(q_result)
    /\ Len(results) = 2
    /\ http_response.status = 200
    /\ http_response.sources = <<>>

MemoryTexts == {T_ALLOC, T_BUFFER, T_LONG}
MentionsMemoryText(msg) == \E i \in DOMAIN msg : msg[i] \in MemoryTexts
EveryCandidateTried == Len(requests_sent) = Len(models_to_try)
ChecklistMatchesError ==
    /\ MentionsMemoryText(q_result)
       => /\ EndsWith(http_response.answer, MemoryChecklist)
          /\ ~EndsWith(http_response.answer, GenericChecklist)
    /\ ~MentionsMemoryText(q_result)
       => /\ EndsWith(http_response.answer, GenericChecklist)
          /\ ~EndsWith(http_response.answer, MemoryChecklist)
HasMemoryChecklistOnly ==
    /\ EndsWith(http_response.answer, MemoryChecklist)
    /\ ~EndsWith(http_response.answer, GenericChecklist)

BodyHasUnableToAllocate(resp) ==
    resp.kind = "http" /\ resp.status # 200 /\ resp.text \in LowerHasUnableToAllocate
ErrorTextHasUnableToAllocate(resp) ==
    HasErrorText(resp) /\ ErrorTextOf(resp) \in LowerHasUnableToAllocate

\* C9 as stated: the answer on model failure carries the memory checklist
\* exactly when the raised error contains "unable to allocate" or "buffer",
\* the generic one otherwise; and when every candidate fails with a
\* non-success response whose body contains "unable to allocate", it carries
\* the memory checklist.
C9_AsStated ==
    (AskDone /\ q_pc = "raised")
    => /\ ChecklistMatchesError
       /\ (/\ EveryCandidateTried
           /\ \A i \in DOMAIN requests_sent : BodyHasUnableToAllocate(ResponseOf(i)))
          => HasMemoryChecklistOnly

\* C9 amended: the same, the second part for non-success responses whose
\* error text (the "error" field of a JSON body, or the first 200 characters
\* of a body that is not JSON) contains "unable to allocate".
C9_ChecklistFollowsError ==
    (AskDone /\ q_pc = "raised")
    => /\ ChecklistMatchesError
       /\ (/\ EveryCandidateTried
           /\ \A i \in DOMAIN requests_sent : ErrorTextHasUnableToAllocate(ResponseOf(i)))
          => HasMemoryChecklistOnly

C9_Witness ==
    /\ AskDone
    /\ q_pc = "raised"
    /\ EveryCandidateTried
    /\ \A i \in DOMAIN requests_sent : ErrorTextHasUnableToAllocate(ResponseOf(i))
    /\ Len(requests_sent) = Len(FALLBACK_MODELS)
    /\ HasMemoryChecklistOnly
    /\ Embeds(http_response.answer, <<T_ALLOC>>)

(***************************************************************************)
(* Properties of chunk_text, checked under SpecChunk.                      *)
(***************************************************************************)
\* the first n characters of every chunk, concatenated
RECURSIVE ConcatHeads(_, _)
ConcatHeads(chunks, n) ==
    IF Len(chunks) = 0 THEN <<>>
    ELSE SubSeq(Head(chunks), 1, Min(n, Len(Head(chunks)))) \o ConcatHeads(Tail(chunks), n)

\* C10: for a non-empty text of length L and 0 <= overlap < chunk_size, with
\* step = chunk_size - overlap: window i is text[i*step : i*step + chunk_size],
\* the first window starts at offset 0, no window is longer than chunk_size,
\* the last window's start + chunk_size is >= L, and the first step
\* characters of the windows, concatenated in order, are the text.
C10_Windows ==
    (c_pc = "done" /\ Len(c_text) > 0 /\ c_overlap < c_chunk_size)
    => LET step == c_chunk_size - c_overlap
           n == Len(c_chunks)
           L == Len(c_text)
           offset(i) == (i - 1) * step
       IN /\ n >= 1
          /\ \A i \in 1..n :
               /\ offset(i) < L
               /\ Len(c_chunks[i]) = Min(offset(i) + c_chunk_size, L) - offset(i)
               /\ Len(c_chunks[i]) <= c_chunk_size
               /\ \A k \in 1..Len(c_chunks[i]) : c_chunks[i][k] = c_text[offset(i) + k]
          /\ offset(n) + c_chunk_size >= L
          /\ ConcatHeads(c_chunks, step) = c_text

C10_Witness ==
    /\ c_pc = "done"
    /\ c_text = <<"a", "b", " ", "b", "a">>
    /\ c_chunk_size = 3
    /\ c_overlap = 1
    /\ c_chunks = <<<<"a", "b", " ">>, <<" ", "b", "a">>, <<"a">>>>

(***************************************************************************)
(* Claims about the store and the endpoints as the server runs them.       *)
(***************************************************************************)
\* request r is an upload that resumes after its read and answers in this step
UploadAnswers(r) ==
    req[r].kind = "upload" /\ req[r].pc = "await_read" /\ req'[r].pc = "done"

\* the windows of a text under chunk_size=1000, overlap=200
WindowsOf(text) == chunk_text(text, DEFAULT_CHUNK_SIZE, DEFAULT_OVERLAP)

\* C11: an upload of a document named F that succeeds, its text having n
\* windows under chunk_size=1000 and overlap=200, adds exactly n chunks to the
\* store, chunk i with id F_i, window i as its text and metadata
\* {source: F, chunk: i}, i running over 0..n-1 in window order, and reports
\* the chunk count n; for a text of 2500 characters n is 4.
C11_UploadAddsItsWindows ==
    [][\A r \in Requests :
         (UploadAnswers(r) /\ req'[r].response.status = 200)
         => LET F == req[r].filename
                windows == WindowsOf(req[r].text)
                n == Len(windows)
                added == collection' \ collection
            IN /\ Cardinality(added) = n
               /\ added = {[id |-> ChunkId(F, i), document |-> windows[i + 1],
                            metadata |-> [source |-> F, chunk |-> i]] : i \in 0..(n - 1)}
               /\ req'[r].response.chunks = n
               /\ (Len(req[r].text) = 2500 => n = 4)]_vars

\* no handler is between two of its steps
Quiescent == \A r \in Requests : req[r].pc \in {"free", "start", "done"}

ClearCompleted == last_completed = [endpoint |-> "clear", status |-> 200]

\* request r of the given kind answers in this step, the engine having no
\* failure of its own for it
Answers(r, kind) ==
    req[r].kind = kind /\ req[r].engine = "ok" /\ req[r].pc # "done" /\ req'[r].pc = "done"

\* every chunk of the batch is returned by some query
Retrievable(batch, coll) ==
    \A c \in batch : \E res \in QueryResults(coll, N_RESULTS) : \E i \in DOMAIN res : res[i] = c

\* C12: whatever was ingested before, a clear that completed leaves the store
\* empty and usable; of the requests that may follow it directly, an ask
\* retrieves nothing and returns the no-documents answer, an upload of a text
\* that is not blank succeeds and its chunks are stored and retrievable, and
\* a second clear succeeds with the same message and the same empty store.
\* A clear that deleted the collection completes, with the collection created
\* anew, unless the engine fails the creation.
C12_ClearLeavesUsableEmptyStore ==
    [][/\ (ClearCompleted' /\ Quiescent') => (collection' = {} /\ handle_state' = "live")
       /\ \A r \in Requests :
            (Answers(r, "clear") /\ req[r].pc = "deleted")
            => /\ req'[r].response = ClearOk
               /\ collection' = {} /\ handle_state' = "live"
       /\ \A r \in Requests :
            ClearCompleted =>
              /\ Answers(r, "ask") => req'[r].response = OnNoDocuments
              /\ (Answers(r, "upload") /\ ~IsBlank(req[r].text))
                 => LET batch == Batch(req[r].filename, WindowsOf(req[r].text))
                    IN /\ req'[r].response = UploadOk(req[r].filename, Len(WindowsOf(req[r].text)))
                       /\ collection' = batch
                       /\ Retrievable(batch, collection')
              /\ Answers(r, "clear")
                 => /\ req'[r].response = ClearOk
                    /\ collection' = {} /\ handle_state' = "live"]_vars

\* a clear completed that removed the chunks of several ingestions
C12_Witness ==
    \E r \in Requests :
        /\ req[r].kind = "clear" /\ req[r].pc = "done" /\ req[r].response = ClearOk
        /\ req[r].removed >= 5
        /\ ClearCompleted /\ collection = {} /\ handle_state = "live"

\* a text that is empty or holds whitespace only
EmptyOrWhitespace(text) == {text[i] : i \in DOMAIN text} \subseteq {" "}

\* C13: an upload whose extracted text is empty or whitespace only is answered
\* 400 'No text found in PDF', and one whose chunking yields no chunk is
\* answered 400 as well; either way the store holds exactly the chunks it held.
C13_UploadWithoutTextChangesNothing ==
    [][\A r \in Requests :
         (UploadAnswers(r)
            /\ (EmptyOrWhitespace(req[r].text) \/ Len(WindowsOf(req[r].text)) = 0))
         => /\ req'[r].response.status = 400
            /\ EmptyOrWhitespace(req[r].text) => req'[r].response = UploadNoText
            /\ collection' = collection
            /\ handle_state' = handle_state]_vars

\* a whitespace-only upload was refused while the store held chunks
C13_Witness ==
    \E r \in Requests :
        /\ req[r].kind = "upload" /\ req[r].pc = "done"
        /\ req[r].text = <<" ", " ">>
        /\ req[r].response = UploadNoText
        /\ Cardinality(collection) >= 4

(***************************************************************************)
(* More claims about query_ollama.                                         *)
(***************************************************************************)
\* A generic failure: a non-success response that is no resource error, or a
\* success-status response without the 'response' field.
IsGenericFailure(resp) ==
    /\ resp.kind = "http"
    /\ IF resp.status = 200 THEN resp.field # "response" ELSE ~IsResourceError(resp)

\* the message of the exception a generic failure raises inside the loop
GenericFailureMsg(resp) ==
    IF resp.status = 200 THEN UnexpectedFormatMsg(resp) ELSE ErrorMsg(resp)

\* C14: when a candidate fails with a generic non-success response or with a
\* success-status response lacking 'response', and a candidate remains after
\* it in the list (repeated identifiers included), the error is recorded and
\* the next candidate is tried; 'Ollama error: ...' is raised only when the
\* failing candidate is at the final position.
C14_GenericFailureRaisesOnlyAtFinalPosition ==
    \A i \in DOMAIN requests_sent :
        (IsGenericFailure(ResponseOf(i)) /\ i = Len(requests_sent))
        => IF i < Len(models_to_try)
           THEN /\ q_pc = "loop" /\ idx = i + 1
                /\ last_error = GenericFailureMsg(ResponseOf(i))
           ELSE /\ q_pc = "raised"
                /\ q_result = OllamaErrorMsg(GenericFailureMsg(ResponseOf(i)))

\* the error message the code observes from a non-success response: the
\* 'error' field of a JSON body, else the status line with the body's start
ObservedErrorOf(resp) == IF resp.json THEN <<resp.text>> ELSE ErrorMsg(resp)

\* the names an installed-model listing holds (none unless it answered 200)
ListedBy(tags) == IF tags.kind = "http" /\ tags.status = 200 THEN tags.models ELSE <<>>

PiecesOf(msg) == {msg[k] : k \in DOMAIN msg}

\* C15: the installed-model listing is queried at most once in an invocation,
\* and only after every candidate was attempted and none succeeded; the
\* all-models-failed error then raised holds the error message of the final
\* candidate attempted (not a missing value, not an earlier candidate's
\* message), the remediation text, and, when the listing is not empty, its
\* first 5 names and no other.
C15_AllFailedErrorAfterEveryCandidate ==
    /\ Len(tags_queries) <= 1
    /\ Len(tags_queries) = 1
       => /\ Len(requests_sent) = Len(models_to_try)
          /\ \A i \in DOMAIN requests_sent : ~IsSuccess(ResponseOf(i))
    /\ (q_pc = "raised" /\ IsAllFailedError(q_result))
       => /\ Len(tags_queries) = 1
          /\ LET final == ResponseOf(Len(requests_sent))
                 observed == ObservedErrorOf(final)
                 listed == ListedBy(tags_queries[1])
             IN /\ final.kind = "http" /\ final.status # 200
                /\ SubSeq(q_result, 2, 1 + Len(observed)) = observed
                /\ q_result[2 + Len(observed)] = "\n\n"
                /\ "1. Restart Ollama: Close and run 'ollama serve' again\n" \in PiecesOf(q_result)
                /\ "2. Free up RAM: Close other applications\n" \in PiecesOf(q_result)
                /\ \A k \in DOMAIN listed : listed[k] \in PiecesOf(q_result) <=> k <= 5
                /\ Len(listed) = 0
                   <=> "3. Install a smaller model: 'ollama pull tinyllama'\n" \in PiecesOf(q_result)

C15_Witness ==
    /\ q_pc = "raised" /\ IsAllFailedError(q_result)
    /\ Len(requests_sent) = 3
    /\ ResponseOf(1) = Http(500, TRUE, "error", T_ALLOC)
    /\ ResponseOf(2) = Http(500, TRUE, "error", T_NOT_FOUND)
    /\ ResponseOf(3) = Http(500, FALSE, "none", T_BUFFER)
    /\ tags_queries = <<[kind |-> "http", status |-> 200, models |-> InstalledSix]>>

(***************************************************************************)
(* More claims about chunk_text.                                           *)
(***************************************************************************)
\* C16: chunk_text terminates for every text, every chunk_size >= 1 and every
\* overlap >= 0, overlap >= chunk_size included: every iteration advances
\* start by at least 1, so it returns at most len(text) chunks; for the empty
\* text it returns the empty sequence whatever the parameters.
C16_ChunkTextTerminates ==
    /\ [][(c_pc = "loop" /\ c_chunks' # c_chunks) => c_start' >= c_start + 1]_vars
    /\ [](Len(c_chunks) <= Len(c_text))
    /\ []((c_pc = "done" /\ Len(c_text) = 0) => c_chunks = <<>>)
    /\ (c_pc = "loop") ~> (c_pc = "done")

\* a call with overlap > chunk_size returned one chunk per character
C16_Witness ==
    /\ c_pc = "done"
    /\ c_overlap > c_chunk_size
    /\ Len(c_text) = MaxTextLen
    /\ Len(c_chunks) = Len(c_text)

\* ceil(a / b) for a >= 0, b >= 1
Ceil(a, b) == (a + b - 1) \div b

\* C17 as stated: for a text of length L and 0 <= overlap < chunk_size with
\* L > overlap, chunk_text returns ceil((L - overlap) / (chunk_size - overlap))
\* chunks.
C17_AsStated ==
    (c_pc = "done" /\ c_overlap < c_chunk_size /\ Len(c_text) > c_overlap)
    => Len(c_chunks) = Ceil(Len(c_text) - c_overlap, c_chunk_size - c_overlap)

\* C17: for a text of length L and 0 <= overlap < chunk_size with L > overlap,
\* chunk_text returns ceil(L / (chunk_size - overlap)) chunks.
C17_ChunkCount ==
    (c_pc = "done" /\ c_overlap < c_chunk_size /\ Len(c_text) > c_overlap)
    => Len(c_chunks) = Ceil(Len(c_text), c_chunk_size - c_overlap)

\* a last window that lies inside the overlap of the one before it
C17_Witness ==
    /\ c_pc = "done"
    /\ Len(c_text) = 5 /\ c_chunk_size = 3 /\ c_overlap = 1
    /\ Len(c_chunks) = 3
    /\ Ceil(Len(c_text) - c_overlap, c_chunk_size - c_overlap) = 2

UniqueIds(coll) == \A c, d \in coll : c.id = d.id => c = d

\* a clear deletes the collection in this step
ClearDeletesNow ==
    \E r \in Requests : req[r].kind = "clear" /\ req[r].pc = "start" /\ req'[r].pc = "deleted"

\* C18: over every sequence of uploads and clears (the same filename uploaded
\* again with another content included) no two stored chunks share an id, a
\* stored chunk keeps its text and metadata as long as it is stored, and a
\* chunk leaves the store only when a clear deletes the collection.
C18_ChunksUniqueAndImmutable ==
    [][/\ UniqueIds(collection')
       /\ \A c \in collection : c \in collection' \/ (ClearDeletesNow /\ collection' = {})]_vars

\* a long document was uploaded under the name of a stored short one: the
\* short one's chunk is kept, the later windows of the long one were added
C18_Witness ==
    \E r \in Requests :
        /\ req[r].kind = "upload" /\ req[r].pc = "done" /\ req[r].response.status = 200
        /\ req[r].text = LongText
        /\ \E c, d \in collection :
             /\ c.id = ChunkId(req[r].filename, 0) /\ c.document = <<"a", " ", "b">>
             /\ d.id = ChunkId(req[r].filename, 3) /\ d.document = WindowsOf(LongText)[4]

\* a chunk whose metadata holds neither 'source' nor 'chunk'
BareChunk == [id |-> ChunkId("a.pdf", 0), document |-> <<"a">>, metadata |-> [page |-> 1]]

\* request r is an ask whose call of query_ollama returns in this step
AskSucceeds(r) ==
    /\ req[r].kind = "ask" /\ req[r].pc = "queried"
    /\ req'[r].pc = "done" /\ req'[r].outcome.do = "return"

\* C19: a successful answer lists one source per retrieved chunk, in the order
\* of retrieval (the order in which the chunk texts were put into the prompt),
\* at most 3 of them; each holds the source and the chunk index of that
\* chunk's metadata, 'Unknown' and 0 standing in for a missing field.
C19_SourcesFollowRetrieval ==
    [][/\ \A r \in Requests :
            AskSucceeds(r)
            => LET sources == req'[r].response.sources
                   retrieved == req[r].results
               IN /\ req'[r].response.status = 200
                  /\ req'[r].response.answer = req'[r].outcome.value
                  /\ Len(sources) = Len(retrieved)
                  /\ Len(sources) \in 1..3
                  /\ \A i \in DOMAIN retrieved :
                       /\ retrieved[i] \in collection
                       /\ sources[i] = [source |-> retrieved[i].metadata.source,
                                        chunk |-> retrieved[i].metadata.chunk]
       /\ SourcesOf(<<BareChunk>>) = <<[source |-> "Unknown", chunk |-> 0]>>]_vars

\* three of the eight stored chunks were retrieved, the later window first
C19_Witness ==
    \E r \in Requests :
        /\ req[r].kind = "ask" /\ req[r].pc = "done" /\ req[r].outcome.do = "return"
        /\ Cardinality(collection) = 8
        /\ req[r].response.sources = <<[source |-> "b.pdf", chunk |-> 3],
                                       [source |-> "a.pdf", chunk |-> 2],
                                       [source |-> "b.pdf", chunk |-> 0]>>

\* request r is answered 500 in this step because its call went through a
\* handle whose collection is not there
FailsOnMissingCollection(r) ==
    /\ req[r].pc # "done" /\ req'[r].pc = "done"
    /\ req'[r].response.status = 500
    /\ req'[r].response.detail[1] = StaleHandleDetail

\* request r calls collection.query or reaches collection.add in this step
AccessesStore(r) ==
    \/ req[r].kind = "ask" /\ req[r].pc = "start" /\ req'[r].pc # "start"
    \/ /\ req[r].kind = "upload" /\ req[r].pc = "await_read" /\ req'[r].pc = "done"
       /\ ~EmptyOrWhitespace(req[r].text)

\* between the delete and the rebinding of the handle only the clear that
\* deleted the collection runs, and the store is empty
DeletedOnlyInsideClear ==
    handle_state = "deleted"
    => /\ running \in Requests
       /\ req[running].kind = "clear" /\ req[running].pc = "deleted"
       /\ collection = {}

\* C20: however the server interleaves concurrent asks, uploads and clears, no
\* ask runs its query and no upload its add through a handle whose collection
\* a clear has deleted and not yet recreated: between the delete and the
\* rebinding of the handle only that clear runs, so a request racing a clear
\* meets the store as it was before the clear or the empty one created by it,
\* and none is answered with an internal error because of the race: a request
\* fails on a missing collection only when the engine had failed to create
\* the collection anew, whatever the order of the requests.
C20_NoCallThroughDeletedHandle ==
    /\ []DeletedOnlyInsideClear
    /\ [][\A r \in Requests : AccessesStore(r) => handle_state # "deleted"]_vars
    /\ [][\A r \in Requests : FailsOnMissingCollection(r) => handle_state = "lost"]_vars

\* a clear has deleted the collection, which held chunks, while an upload of
\* a document waits for its read
C20_Witness ==
    \E c, u \in Requests :
        /\ req[c].kind = "clear" /\ req[c].pc = "deleted" /\ req[c].removed >= 1
        /\ req[u].kind = "upload" /\ req[u].pc = "await_read"
        /\ ~EmptyOrWhitespace(req[u].text)
        /\ handle_state = "deleted"
====
